---- MODULE Spec2Model ----
(***************************************************************************)
(* Model of the retry plugin of endpoint-fetcher (src/src/index.ts).       *)
(*                                                                         *)
(* retryPlugin(config) resolves a partial configuration against            *)
(* defaultConfig and returns a handlerWrapper; the wrapped handler runs    *)
(* the retry loop: invoke the original handler, on rejection decide with   *)
(* shouldRetryRequest, compute calculateDelay, call onRetry, wait on a     *)
(* timer and try again.                                                    *)
(*                                                                         *)
(* Every decorated call c keeps its own loop state; what a call did is     *)
(* recorded, in program order, in log[c].                                  *)
(***************************************************************************)
EXTENDS Integers, Sequences, FiniteSets, TLC

\* ------------------------------------------------------------------ bounds
MaxRetriesBound == 1      \* user-supplied maxRetries ranges over -1..MaxRetriesBound
MaxBaseDelay == 2         \* user-supplied baseDelay ranges over 1..MaxBaseDelay
MaxMaxDelay == 1          \* user-supplied maxDelay ranges over 1..MaxMaxDelay
NumCalls == 2             \* decorated calls made through one plugin instance

Calls == 1..NumCalls

\* ------------------------------------------------------------------ values
\* err.status of an error that carries no status field (undefined)
NoStatus == -1

\* status codes the underlying handler may reject with
Statuses == {NoStatus, 0, 404, 429, 500, 503}

\* context.method as the host passes it; "" stands for an absent method
Methods == {"", "get", "POST"}

\* the value of `lastError` before any assignment (undefined)
UndefinedError == [origin |-> "undefined", id |-> 0, status |-> NoStatus]

\* the error object thrown by the id-th invocation of the original handler
HandlerError(id, status) == [origin |-> "handler", id |-> id, status |-> status]

\* the error object a throwing shouldRetry / onRetry callback raises
ShouldRetryError == [origin |-> "shouldRetry", id |-> 0, status |-> NoStatus]
OnRetryError == [origin |-> "onRetry", id |-> 0, status |-> NoStatus]

\* a numeric configuration field whose value is `undefined`
Undefined == -1000

\* JavaScript truthiness of err.status: undefined and 0 are falsy
Truthy(status) == status # NoStatus /\ status # 0

\* String.prototype.toUpperCase on the method names of Methods
toUpperCase(m) ==
  CASE m = "get" -> "GET"
    [] m = "post" -> "POST"
    [] OTHER -> m

\* ----------------------------------------------------------- configuration
defaultConfigNo503 ==
  [ maxRetries |-> 3,
    baseDelay |-> 1000,
    maxDelay |-> 30000,
    strategy |-> "exponential",
    shouldRetry |-> "default",
    onRetry |-> "noop",
    retryStatusCodes |-> {500, 502, 504, 429},
    retryMethods |-> {"GET", "POST", "PUT", "PATCH", "DELETE"} ]

defaultConfig ==
  [ maxRetries |-> 3,
    baseDelay |-> 1000,
    maxDelay |-> 30000,
    strategy |-> "exponential",
    shouldRetry |-> "default",
    onRetry |-> "noop",
    retryStatusCodes |-> {500, 502, 503, 504, 429},
    retryMethods |-> {"GET", "POST", "PUT", "PATCH", "DELETE"} ]

\* an optional field of the partial RetryConfig: <<>> when the user left it out
Opt(S) == {<<>>} \cup {<<v>> : v \in S}

\* the partial configurations passed to retryPlugin
RetryConfig ==
  [ maxRetries : Opt((-1..MaxRetriesBound) \cup {Undefined}),
    baseDelay : Opt(1..MaxBaseDelay),
    maxDelay : Opt(1..MaxMaxDelay),
    strategy : Opt({"fixed", "linear", "other"}),
    shouldRetry : Opt({"always", "never", "throws", "zeroOnly"}),
    onRetry : Opt({"throws"}),
    retryStatusCodes : Opt({{404, 503}}),
    retryMethods : Opt({{}, {"GET"}}) ]

\* a partial configuration that sets nothing
NoConfig ==
  [ maxRetries |-> <<>>, baseDelay |-> <<>>, maxDelay |-> <<>>, strategy |-> <<>>,
    shouldRetry |-> <<>>, onRetry |-> <<>>, retryStatusCodes |-> <<>>,
    retryMethods |-> <<>> ]

\* retryPlugin({ maxRetries: 2, baseDelay: 100, strategy: 'exponential' })
ScenarioConfig ==
  [NoConfig EXCEPT !.maxRetries = <<2>>, !.baseDelay = <<100>>,
                   !.strategy = <<"exponential">>]

\* `{...defaultConfig, ...config}` / `config?.f || defaultConfig.f` for one field
Merged(opt, def) == IF opt = <<>> THEN def ELSE opt[1]

retryPluginDefaultShouldRetry(config) ==
  [ maxRetries |-> Merged(config.maxRetries, defaultConfig.maxRetries),
    baseDelay |-> Merged(config.baseDelay, defaultConfig.baseDelay),
    maxDelay |-> Merged(config.maxDelay, defaultConfig.maxDelay),
    strategy |-> Merged(config.strategy, defaultConfig.strategy),
    shouldRetry |-> defaultConfig.shouldRetry,
    onRetry |-> Merged(config.onRetry, defaultConfig.onRetry),
    retryStatusCodes |-> Merged(config.retryStatusCodes, defaultConfig.retryStatusCodes),
    retryMethods |-> Merged(config.retryMethods, defaultConfig.retryMethods) ]

\* the mergedConfig built by retryPlugin(config)
retryPlugin(config) ==
  [ maxRetries |-> Merged(config.maxRetries, defaultConfig.maxRetries),
    baseDelay |-> Merged(config.baseDelay, defaultConfig.baseDelay),
    maxDelay |-> Merged(config.maxDelay, defaultConfig.maxDelay),
    strategy |-> Merged(config.strategy, defaultConfig.strategy),
    shouldRetry |-> Merged(config.shouldRetry, defaultConfig.shouldRetry),
    onRetry |-> Merged(config.onRetry, defaultConfig.onRetry),
    retryStatusCodes |-> Merged(config.retryStatusCodes, defaultConfig.retryStatusCodes),
    retryMethods |-> Merged(config.retryMethods, defaultConfig.retryMethods) ]

\* ------------------------------------------------------------ pure helpers
Min(a, b) == IF a <= b THEN a ELSE b

RECURSIVE Pow2(_)
Pow2(n) == IF n <= 0 THEN 1 ELSE 2 * Pow2(n - 1)

calculateDelayPowAttempt(attempt, baseDelay, maxDelay, strategy) ==
  CASE strategy = "fixed" -> baseDelay
    [] strategy = "linear" -> Min(baseDelay * attempt, maxDelay)
    [] OTHER -> Min(baseDelay * Pow2(attempt), maxDelay)

calculateDelay(attempt, baseDelay, maxDelay, strategy) ==
  CASE strategy = "fixed" -> baseDelay
    [] strategy = "linear" -> Min(baseDelay * attempt, maxDelay)
    [] OTHER -> Min(baseDelay * Pow2(attempt - 1), maxDelay)

\* config.shouldRetry(error, attempt): "true", "false" or "throw"; the kinds
\* other than "default" are functions a user may supply
shouldRetryFn(kind, error, attempt) ==
  CASE kind = "default" ->
         IF ~Truthy(error.status) \/ error.status >= 500 THEN "true" ELSE "false"
    [] kind = "always" -> "true"
    [] kind = "never" -> "false"
    [] kind = "zeroOnly" -> IF attempt = 0 THEN "true" ELSE "false"
    [] OTHER -> "throw"

ShouldRetryAttemptArgOne == 0 + 1

\* the attempt number shouldRetryRequest hands to config.shouldRetry
ShouldRetryAttemptArg == 0

shouldRetryRequestNoMethod(error, config, method) ==
  LET custom == shouldRetryFn(config.shouldRetry, error, ShouldRetryAttemptArg) IN
  IF custom = "throw" THEN "throw"
  ELSE IF custom = "false" THEN "false"
  ELSE IF Truthy(error.status) /\ error.status \notin config.retryStatusCodes THEN "false"
  ELSE "true"

\* shouldRetryRequest(error, config, context): "true", "false" or "throw"
shouldRetryRequest(error, config, method) ==
  LET custom == shouldRetryFn(config.shouldRetry, error, ShouldRetryAttemptArg) IN
  IF custom = "throw" THEN "throw"
  ELSE IF custom = "false" THEN "false"
  ELSE IF Truthy(error.status) /\ error.status \notin config.retryStatusCodes THEN "false"
  ELSE IF method # "" /\ toUpperCase(method) \notin config.retryMethods THEN "false"
  ELSE "true"

\* ------------------------------------------------------------------- state
VARIABLES
  userConfig,     \* the partial configuration retryPlugin was called with
  mergedConfig,   \* the resolved configuration of the plugin instance
  pc,             \* pc[c]: where call c stands
  context,        \* context[c]: the request method of call c
  attempt,        \* attempt[c]: the loop counter
  lastError,      \* lastError[c]
  pending,        \* pending[c]: the rejection of the handler not yet caught
  timer,          \* timer[c]: deadline of the pending setTimeout, -1 if none
  result,         \* result[c]: how the decorated call settled
  log,            \* log[c]: what call c did, in program order
  now             \* the clock timers run on

vars == <<userConfig, mergedConfig, pc, context, attempt, lastError, pending, timer, result, log, now>>

NoResult == [kind |-> "none", val |-> 0, err |-> UndefinedError]
Resolved(v) == [kind |-> "resolved", val |-> v, err |-> UndefinedError]
Rejected(e) == [kind |-> "rejected", val |-> 0, err |-> e]

Event(ev, err, a, d, v) == [ev |-> ev, err |-> err, attempt |-> a, delay |-> d, val |-> v]

\* number of events of kind ev in a log
Count(l, ev) == Cardinality({k \in 1..Len(l) : l[k].ev = ev})

\* the events of kind ev of a log, in order
Only(l, ev) == SelectSeq(l, LAMBDA e : e.ev = ev)

\* the state after retryPlugin(config), config drawn from configs
InitWith(configs) ==
  /\ userConfig \in configs
  /\ mergedConfig = retryPlugin(userConfig)
  /\ pc = [c \in Calls |-> "idle"]
  /\ context = [c \in Calls |-> ""]
  /\ attempt = [c \in Calls |-> 0]
  /\ lastError = [c \in Calls |-> UndefinedError]
  /\ pending = [c \in Calls |-> UndefinedError]
  /\ timer = [c \in Calls |-> -1]
  /\ result = [c \in Calls |-> NoResult]
  /\ log = [c \in Calls |-> <<>>]
  /\ now = 0

Init == InitWith(RetryConfig \cup {ScenarioConfig})

LoopConditionOffByOne(a, maxRetries) == maxRetries # Undefined /\ a <= maxRetries

\* `attempt <= maxRetries + 1`; undefined + 1 is NaN and compares false
LoopCondition(a, maxRetries) == maxRetries # Undefined /\ a <= maxRetries + 1

LoopHeadSharedAttempt(c, a, l) ==
  /\ attempt' = [d \in Calls |-> a]
  /\ IF LoopCondition(a, mergedConfig.maxRetries)
     THEN /\ pc' = [pc EXCEPT ![c] = "inflight"]
          /\ log' = [log EXCEPT ![c] = Append(l, Event("invoke", UndefinedError, a, 0, 0))]
          /\ UNCHANGED result
     ELSE /\ pc' = [pc EXCEPT ![c] = "done"]
          /\ result' = [result EXCEPT ![c] = Rejected(lastError[c])]
          /\ log' = [log EXCEPT ![c] = l]

\* the loop head `attempt <= maxRetries + 1` with attempt = a, followed by
\* either the invocation of originalHandler or the `throw lastError!` after
\* the loop
LoopHead(c, a, l) ==
  /\ attempt' = [attempt EXCEPT ![c] = a]
  /\ IF LoopCondition(a, mergedConfig.maxRetries)
     THEN /\ pc' = [pc EXCEPT ![c] = "inflight"]
          /\ log' = [log EXCEPT ![c] = Append(l, Event("invoke", UndefinedError, a, 0, 0))]
          /\ UNCHANGED result
     ELSE /\ pc' = [pc EXCEPT ![c] = "done"]
          /\ result' = [result EXCEPT ![c] = Rejected(lastError[c])]
          /\ log' = [log EXCEPT ![c] = l]

\* the host calls the decorated handler with context.method = m
Call(c, m) ==
  /\ pc[c] = "idle"
  /\ context' = [context EXCEPT ![c] = m]
  /\ LoopHead(c, 1, log[c])
  /\ UNCHANGED <<userConfig, mergedConfig, lastError, pending, timer, now>>

HandlerResolveNoReturn(c) ==
  /\ pc[c] = "inflight"
  /\ LoopHead(c, attempt[c] + 1,
               Append(log[c], Event("resolve", UndefinedError, 0, 0, Count(log[c], "invoke"))))
  /\ UNCHANGED <<userConfig, mergedConfig, context, lastError, pending, timer, now>>

\* the original handler resolves; `return await originalHandler(...)`
HandlerResolve(c) ==
  /\ pc[c] = "inflight"
  /\ LET v == Count(log[c], "invoke") IN
       /\ log' = [log EXCEPT ![c] = Append(@, Event("resolve", UndefinedError, 0, 0, v))]
       /\ result' = [result EXCEPT ![c] = Resolved(v)]
  /\ pc' = [pc EXCEPT ![c] = "done"]
  /\ UNCHANGED <<userConfig, mergedConfig, context, attempt, lastError, pending, timer, now>>

\* the original handler rejects with an error of status s
HandlerReject(c, s) ==
  /\ pc[c] = "inflight"
  /\ LET e == HandlerError(Count(log[c], "invoke"), s) IN
       /\ pending' = [pending EXCEPT ![c] = e]
       /\ log' = [log EXCEPT ![c] = Append(@, Event("reject", e, 0, 0, 0))]
  /\ pc' = [pc EXCEPT ![c] = "caught"]
  /\ UNCHANGED <<userConfig, mergedConfig, context, attempt, lastError, timer, result, now>>

RetriesRemainAlways(a, maxRetries) == TRUE

RetriesRemainStrict(a, maxRetries) == maxRetries # Undefined /\ a < maxRetries

\* `attempt <= maxRetries`, the first conjunct of the retry test
RetriesRemain(a, maxRetries) == maxRetries # Undefined /\ a <= maxRetries

ThrownHookSwallowed(answer, error) ==
  CASE answer = "throw" -> ShouldRetryError
    [] OTHER -> error

ThrownWrapped(answer, error) ==
  CASE answer = "throw" -> ShouldRetryError
    [] answer = "true" -> OnRetryError
    [] OTHER -> [origin |-> "wrapper", id |-> error.id, status |-> error.status]

\* what the catch block throws when it takes no retry: the error of a
\* throwing shouldRetry, the error of a throwing onRetry, or `throw error`
Thrown(answer, error) ==
  CASE answer = "throw" -> ShouldRetryError
    [] answer = "true" -> OnRetryError
    [] OTHER -> error

RetryEventsTimerFirst(error, a, delay, onRetry) ==
  <<Event("setTimeout", UndefinedError, 0, delay, 0), Event("onRetry", error, a, delay, 0)>>

\* a retry being taken: `onRetry(error, attempt, delay)`, then, unless onRetry
\* threw, `setTimeout(resolve, delay)`
RetryEvents(error, a, delay, onRetry) ==
  <<Event("onRetry", error, a, delay, 0)>> \o
  (IF onRetry # "throws" THEN <<Event("setTimeout", UndefinedError, 0, delay, 0)>> ELSE <<>>)

\* the catch block of the loop body, run to completion
Catch(c) ==
  /\ pc[c] = "caught"
  /\ LET error == pending[c]
         a == attempt[c]
         cfg == mergedConfig
         asked == RetriesRemain(a, cfg.maxRetries)
         answer == IF asked THEN shouldRetryRequest(error, cfg, context[c]) ELSE "false"
         delay == calculateDelay(a, cfg.baseDelay, cfg.maxDelay, cfg.strategy)
         l1 == IF asked THEN <<Event("shouldRetry", error, ShouldRetryAttemptArg, 0, 0)>>
               ELSE <<>>
         l2 == IF answer = "true" THEN RetryEvents(error, a, delay, cfg.onRetry) ELSE <<>>
     IN
       /\ lastError' = [lastError EXCEPT ![c] = error]
       /\ log' = [log EXCEPT ![c] = @ \o l1 \o l2]
       /\ IF answer = "true" /\ cfg.onRetry # "throws"
          THEN /\ timer' = [timer EXCEPT ![c] = now + delay]
               /\ pc' = [pc EXCEPT ![c] = "waiting"]
               /\ UNCHANGED result
          ELSE /\ pc' = [pc EXCEPT ![c] = "done"]
               /\ result' = [result EXCEPT ![c] =
                    Rejected(Thrown(answer, error))]
               /\ UNCHANGED timer
  /\ UNCHANGED <<userConfig, mergedConfig, context, attempt, pending, now>>

TimerFireEarly(c) ==
  /\ pc[c] = "waiting"
  /\ now' = now
  /\ timer' = [timer EXCEPT ![c] = -1]
  /\ LoopHead(c, attempt[c] + 1, Append(log[c], Event("timeout", UndefinedError, 0, 0, 0)))
  /\ UNCHANGED <<userConfig, mergedConfig, context, lastError, pending>>

TimerFireLost(c) ==
  /\ pc[c] = "waiting"
  /\ timer[c] >= 0
  /\ \A d \in Calls : pc[d] = "waiting" => timer[c] <= timer[d]
  /\ now' = IF timer[c] > now THEN timer[c] ELSE now
  /\ timer' = [timer EXCEPT ![c] = -1]
  /\ UNCHANGED <<userConfig, mergedConfig, pc, context, attempt, lastError, pending, result, log>>

TimerFireNoIncrement(c) ==
  /\ pc[c] = "waiting"
  /\ \A d \in Calls : pc[d] = "waiting" => timer[c] <= timer[d]
  /\ now' = IF timer[c] > now THEN timer[c] ELSE now
  /\ timer' = [timer EXCEPT ![c] = -1]
  /\ LoopHead(c, attempt[c], Append(log[c], Event("timeout", UndefinedError, 0, 0, 0)))
  /\ UNCHANGED <<userConfig, mergedConfig, context, lastError, pending>>

\* the earliest pending timer fires; `continue`, `attempt++` and the loop head
TimerFire(c) ==
  /\ pc[c] = "waiting"
  /\ \A d \in Calls : pc[d] = "waiting" => timer[c] <= timer[d]
  /\ now' = IF timer[c] > now THEN timer[c] ELSE now
  /\ timer' = [timer EXCEPT ![c] = -1]
  /\ LoopHead(c, attempt[c] + 1, Append(log[c], Event("timeout", UndefinedError, 0, 0, 0)))
  /\ UNCHANGED <<userConfig, mergedConfig, context, lastError, pending>>

Step(c) ==
  \/ \E m \in Methods : Call(c, m)
  \/ HandlerResolve(c)
  \/ \E s \in Statuses : HandlerReject(c, s)
  \/ Catch(c)
  \/ TimerFire(c)

\* the handler's promise settles
HandlerSettles(c) == HandlerResolve(c) \/ \E s \in Statuses : HandlerReject(c, s)

\* one decorated call, run alone
Next == Step(1)

Spec == Init /\ [][Next]_vars

\* one decorated call whose handler invocations all settle, whose timers all
\* fire and whose continuations all run
Fairness ==
  /\ WF_vars(HandlerSettles(1))
  /\ WF_vars(Catch(1))
  /\ WF_vars(TimerFire(1))

\* the configurations that leave the delay curve at its defaults
LiveConfig ==
  {cfg \in RetryConfig : cfg.baseDelay = <<>> /\ cfg.maxDelay = <<>> /\ cfg.strategy = <<>>}

InitLive == InitWith(LiveConfig)

SpecLive == InitLive /\ [][Next]_vars /\ Fairness

\* several calls through one plugin instance, interleaved at will
ConcMethods == {"get"}
ConcStatuses == {404, 503}

ConcConfig ==
  { [NoConfig EXCEPT !.maxRetries = <<r>>, !.baseDelay = <<b>>,
                     !.strategy = st, !.onRetry = o] :
      r \in 1..(MaxRetriesBound + 1), b \in 1..MaxBaseDelay,
      st \in {<<>>, <<"linear">>}, o \in {<<>>, <<"throws">>} }

InitConc == InitWith(ConcConfig)

StepConc(c) ==
  \/ \E m \in ConcMethods : Call(c, m)
  \/ HandlerResolve(c)
  \/ \E s \in ConcStatuses : HandlerReject(c, s)
  \/ Catch(c)
  \/ TimerFire(c)

NextConc == \E c \in Calls : StepConc(c)

SpecConc == InitConc /\ [][NextConc]_vars

\* ------------------------------------------------------------- observations
Done(c) == pc[c] = "done"
handlerCalls(c) == Count(log[c], "invoke")
onRetryCalls(c) == Count(log[c], "onRetry")
waits(c) == Count(log[c], "setTimeout")
rejections(c) == Only(log[c], "reject")

NoResolve(c) == Count(log[c], "resolve") = 0

\* the error passes the eligibility test of call c
Eligible(c, e) == shouldRetryRequest(e, mergedConfig, context[c]) = "true"
AllEligible(c) == \A i \in 1..Len(rejections(c)) : Eligible(c, rejections(c)[i].err)

\* the call carries a method and retryMethods lists its uppercased form
RetryableMethod(c) ==
  context[c] # "" /\ toUpperCase(context[c]) \in mergedConfig.retryMethods

TypeOK ==
  /\ \A c \in Calls : pc[c] \in {"idle", "inflight", "caught", "waiting", "done"}
  /\ \A c \in Calls : result[c].kind \in {"none", "resolved", "rejected"}
  /\ \A c \in Calls : (pc[c] = "done") <=> (result[c].kind # "none")
  /\ \A c \in Calls : (pc[c] = "waiting") <=> (timer[c] >= 0)

\* ------------------------------------------------------------------ claims

\* C1: with a non-negative maxRetries, one decorated call invokes the
\* underlying handler at most maxRetries + 1 times, whatever the handler's
\* outcomes and the request method.
C1_AtMostMaxRetriesPlusOne ==
  \A c \in Calls :
    mergedConfig.maxRetries >= 0 => handlerCalls(c) <= mergedConfig.maxRetries + 1

\* a call that used its whole budget, the last invocation resolving
C1_Witness ==
  /\ Done(1) /\ mergedConfig.maxRetries = 3 /\ handlerCalls(1) = 4
  /\ result[1].kind = "resolved"

\* C2 (as stated): if every invocation rejects with an eligible error, the
\* call invokes the handler exactly maxRetries + 1 times, takes exactly
\* maxRetries retries and then rejects.
C2_Original ==
  \A c \in Calls :
    (Done(c) /\ mergedConfig.maxRetries >= 0 /\ NoResolve(c) /\ AllEligible(c))
      => /\ handlerCalls(c) = mergedConfig.maxRetries + 1
         /\ waits(c) = mergedConfig.maxRetries
         /\ result[c].kind = "rejected"

\* C2 (amended): the same, for a configuration whose onRetry does not throw.
C2_ExactlyMaxRetriesPlusOne ==
  \A c \in Calls :
    (Done(c) /\ mergedConfig.maxRetries >= 0 /\ NoResolve(c) /\ AllEligible(c)
       /\ mergedConfig.onRetry # "throws")
      => /\ handlerCalls(c) = mergedConfig.maxRetries + 1
         /\ waits(c) = mergedConfig.maxRetries
         /\ Count(log[c], "timeout") = mergedConfig.maxRetries
         /\ result[c].kind = "rejected"

C2_Witness ==
  /\ Done(1) /\ NoResolve(1) /\ AllEligible(1)
  /\ mergedConfig.onRetry # "throws" /\ mergedConfig.maxRetries = 1
  /\ Len(rejections(1)) = 2 /\ waits(1) = 1 /\ result[1].kind = "rejected"

\* C3: when a call rejects because attempts are exhausted or the error is not
\* eligible, the caller receives the very error object thrown by the most
\* recent handler invocation: not a wrapper, not an earlier attempt's error.
C3_LastErrorUnchanged ==
  \A c \in Calls :
    LET rj == rejections(c) IN
    (/\ Done(c) /\ result[c].kind = "rejected" /\ Len(rj) >= 1
     /\ \/ ~RetriesRemain(attempt[c], mergedConfig.maxRetries)
        \/ shouldRetryRequest(rj[Len(rj)].err, mergedConfig, context[c]) = "false")
      => /\ result[c].err = rj[Len(rj)].err
         /\ result[c].err.origin = "handler"
         /\ result[c].err.id = handlerCalls(c)

\* rejected as ineligible on the second attempt, with retries still left
C3_Witness ==
  LET rj == rejections(1) IN
  /\ Done(1) /\ result[1].kind = "rejected" /\ Len(rj) = 2
  /\ RetriesRemain(attempt[1], mergedConfig.maxRetries)
  /\ shouldRetryRequest(rj[2].err, mergedConfig, context[1]) = "false"
  /\ result[1].err = rj[2].err /\ rj[1].err # rj[2].err

\* C4: if the first k invocations reject with eligible errors and invocation
\* k+1 resolves with v, the call resolves with v after exactly k+1 handler
\* invocations and k onRetry calls, and nothing (invocation, onRetry, wait)
\* happens after the handler has resolved.
C4_ResolveEndsTheCall ==
  \A c \in Calls :
    Count(log[c], "resolve") > 0 =>
      LET n == Len(log[c])
          k == Len(rejections(c))
      IN /\ log[c][n].ev = "resolve"
         /\ Count(log[c], "resolve") = 1
         /\ Done(c)
         /\ result[c] = Resolved(log[c][n].val)
         /\ log[c][n].val = k + 1
         /\ handlerCalls(c) = k + 1
         /\ onRetryCalls(c) = k
         /\ waits(c) = k
         /\ k <= mergedConfig.maxRetries
         /\ AllEligible(c)

\* two eligible failures, then success on the third invocation
C4_Witness ==
  /\ Done(1) /\ result[1] = Resolved(3)
  /\ Len(rejections(1)) = 2 /\ onRetryCalls(1) = 2

\* C5: every delay passed to onRetry and waited on lies in 0..maxDelay, for
\* every strategy and every positive baseDelay and maxDelay.
C5_DelayWithinMaxDelay ==
  \A c \in Calls : \A i \in 1..Len(log[c]) :
    log[c][i].ev \in {"onRetry", "setTimeout"} =>
      (0 <= log[c][i].delay /\ log[c][i].delay <= mergedConfig.maxDelay)

\* C6 (as stated): onRetry is invoked exactly once per retry actually taken
\* and never for the final failed attempt; the i-th onRetry call receives the
\* error of the i-th invocation, attempt i and delay calculateDelay(i); it
\* comes after the i-th rejection and before the wait of that delay, which
\* precedes invocation i+1.
C6_Arguments(c) ==
  LET oi == Only(log[c], "onRetry")
      rj == rejections(c)
  IN \A i \in 1..Len(oi) :
       /\ i <= Len(rj)
       /\ oi[i].err = rj[i].err
       /\ oi[i].err.id = i
       /\ oi[i].attempt = i
       /\ oi[i].delay = calculateDelay(i, mergedConfig.baseDelay,
                                        mergedConfig.maxDelay, mergedConfig.strategy)

C6_Order(c) ==
  LET l == log[c] IN
  \A k \in 1..Len(l) :
    /\ l[k].ev = "onRetry" =>
         /\ \E j \in 1..(k - 1) : l[j].ev = "reject" /\ l[j].err = l[k].err
         /\ \A j \in (k + 1)..Len(l) : l[j].ev # "reject" \/ l[j].err # l[k].err
         /\ k < Len(l) => (l[k + 1].ev = "setTimeout" /\ l[k + 1].delay = l[k].delay)
    /\ l[k].ev = "setTimeout" =>
         /\ k > 1 /\ l[k - 1].ev = "onRetry" /\ l[k - 1].delay = l[k].delay
         /\ k < Len(l) => l[k + 1].ev = "timeout"
    /\ l[k].ev = "timeout" =>
         /\ k > 1 /\ l[k - 1].ev = "setTimeout"
         /\ k < Len(l) /\ l[k + 1].ev = "invoke"
    /\ (l[k].ev = "invoke" /\ l[k].attempt > 1) =>
         /\ k > 2 /\ l[k - 1].ev = "timeout" /\ l[k - 2].ev = "setTimeout"
         /\ Count(SubSeq(l, 1, k), "onRetry") = l[k].attempt - 1

C6_Original ==
  \A c \in Calls :
    /\ C6_Arguments(c)
    /\ C6_Order(c)
    /\ onRetryCalls(c) = waits(c)
    /\ (Done(c) /\ handlerCalls(c) >= 1) => onRetryCalls(c) = handlerCalls(c) - 1

\* C6 (amended): as stated when onRetry does not throw; a throwing onRetry is
\* invoked once more, for the failed attempt whose retry it aborts, and no
\* wait or invocation follows that call.
C6_OnRetryPerRetry ==
  \A c \in Calls :
    LET aborted == IF result[c].err = OnRetryError THEN 1 ELSE 0 IN
    /\ C6_Arguments(c)
    /\ C6_Order(c)
    /\ onRetryCalls(c) = waits(c) + aborted
    /\ (Done(c) /\ handlerCalls(c) >= 1) => onRetryCalls(c) = handlerCalls(c) - 1 + aborted
    /\ mergedConfig.onRetry # "throws" => aborted = 0
    /\ aborted = 1 => log[c][Len(log[c])].ev = "onRetry"

\* two retries taken, then the third attempt fails for good
C6_Witness ==
  /\ Done(1) /\ result[1].kind = "rejected" /\ result[1].err.origin = "handler"
  /\ handlerCalls(1) = 3 /\ onRetryCalls(1) = 2 /\ waits(1) = 2

\* C7: with the default configuration and a retryable method, a handler that
\* always rejects with 404 is invoked exactly once, and one that always
\* rejects with 503 is invoked maxRetries + 1 times.
C7_Default404And503 ==
  \A c \in Calls :
    LET rj == rejections(c) IN
    (mergedConfig = defaultConfig /\ RetryableMethod(c)) =>
      /\ (Len(rj) >= 1 /\ rj[1].err.status = 404) =>
           /\ handlerCalls(c) = 1 /\ waits(c) = 0 /\ onRetryCalls(c) = 0
           /\ pc[c] \in {"caught", "done"}
      /\ (Done(c) /\ NoResolve(c) /\ \A i \in 1..Len(rj) : rj[i].err.status = 503) =>
           /\ handlerCalls(c) = mergedConfig.maxRetries + 1
           /\ waits(c) = mergedConfig.maxRetries

C7_Witness ==
  LET rj == rejections(1) IN
  /\ mergedConfig = defaultConfig /\ RetryableMethod(1)
  /\ Done(1) /\ Len(rj) = 4 /\ \A i \in 1..4 : rj[i].err.status = 503

\* C8: with the default configuration, a retryable method and attempts
\* remaining, a rejection whose status is a member of the default
\* retryStatusCodes (500, 502, 503, 504, 429) is retried.
C8_DefaultStatusCodesRetried ==
  \A c \in Calls :
    LET rj == rejections(c) IN
    (mergedConfig = defaultConfig /\ RetryableMethod(c)) =>
      \A i \in 1..Len(rj) :
        (/\ rj[i].err.status \in mergedConfig.retryStatusCodes
         /\ RetriesRemain(i, mergedConfig.maxRetries)
         /\ (i < Len(rj) \/ pc[c] # "caught"))
          => waits(c) >= i

\* C9: a call whose method, uppercased, is not in retryMethods invokes the
\* handler exactly once when it fails and takes no retry, whatever the status
\* code, shouldRetry and maxRetries.
C9_MethodNotRetried ==
  \A c \in Calls :
    (context[c] # "" /\ toUpperCase(context[c]) \notin mergedConfig.retryMethods) =>
      /\ handlerCalls(c) <= 1
      /\ waits(c) = 0 /\ onRetryCalls(c) = 0
      /\ (Done(c) /\ Len(rejections(c)) >= 1) =>
           (handlerCalls(c) = 1 /\ result[c].kind = "rejected")

\* a failing POST under retryMethods ['GET'], everything else favouring a retry
C9_Witness ==
  /\ Done(1) /\ context[1] = "POST" /\ mergedConfig.retryMethods = {"GET"}
  /\ mergedConfig.shouldRetry = "always" /\ mergedConfig.maxRetries >= 1
  /\ Len(rejections(1)) = 1 /\ rejections(1)[1].err.status = 503
  /\ 503 \in mergedConfig.retryStatusCodes

\* C10: with a custom shouldRetry that always returns false, a call whose
\* handler rejects invokes the handler exactly once, never calls onRetry and
\* never waits, for every maxRetries, status code and method.
C10_ShouldRetryFalse ==
  \A c \in Calls :
    (userConfig.shouldRetry = <<"never">> /\ Len(rejections(c)) >= 1) =>
      /\ handlerCalls(c) = 1
      /\ onRetryCalls(c) = 0 /\ waits(c) = 0
      /\ pc[c] \in {"caught", "done"}
      /\ Done(c) => result[c] = Rejected(rejections(c)[1].err)

\* an otherwise retryable failure, retries left, refused by shouldRetry
C10_Witness ==
  /\ userConfig.shouldRetry = <<"never">> /\ mergedConfig.maxRetries >= 2
  /\ Done(1) /\ handlerCalls(1) = 1 /\ context[1] = "get"
  /\ Len(rejections(1)) = 1 /\ rejections(1)[1].err.status = 503
  /\ 503 \in mergedConfig.retryStatusCodes /\ "GET" \in mergedConfig.retryMethods

\* C11: within one call the loop is strictly sequential: at most one handler
\* invocation is in flight, invocation N+1 starts only after invocation N has
\* settled, and only after the delay that follows invocation N has elapsed.
inFlight(c) ==
  handlerCalls(c) - (Count(log[c], "resolve") + Count(log[c], "reject"))

C11_OneInFlight ==
  \A c \in Calls :
    /\ inFlight(c) \in {0, 1}
    /\ (inFlight(c) = 1) <=> (pc[c] = "inflight")

C11_InvocationStep ==
  \A c \in Calls :
    /\ handlerCalls(c)' > handlerCalls(c) =>
         /\ handlerCalls(c)' = handlerCalls(c) + 1
         /\ inFlight(c) = 0
         /\ pc[c] \in {"idle", "waiting"}
         /\ pc[c] = "waiting" =>
              /\ log[c][Len(log[c])].ev = "setTimeout"
              /\ timer[c] >= 0 /\ now' >= timer[c]
    /\ (pc[c] = "caught" /\ pc'[c] = "waiting") =>
         timer'[c] = now + log'[c][Len(log'[c])].delay

C11_StrictlySequential == []C11_OneInFlight /\ [][C11_InvocationStep]_vars

\* a second attempt in flight after its wait, next to another call's wait
C11_Witness ==
  /\ pc[1] = "inflight" /\ attempt[1] = 2 /\ now >= 1
  /\ pc[2] = "waiting"

\* C12: calls through one decorator instance are independent: each has its own
\* attempt counter starting at 1, its invocation count, onRetry attempt numbers
\* and delays are those of a call running alone, no call uses up another's
\* retries, and no call changes the resolved configuration.
C12_AsIfAlone(c) ==
  /\ pc[c] # "idle" => (attempt[c] = handlerCalls(c) /\ attempt[c] >= 1)
  /\ handlerCalls(c) <= mergedConfig.maxRetries + 1
  /\ C6_Arguments(c)
  /\ C6_Order(c)
  /\ Len(rejections(c)) >= 1 => lastError[c].id \in {Len(rejections(c)) - 1, Len(rejections(c))}
  /\ (Done(c) /\ NoResolve(c) /\ AllEligible(c) /\ mergedConfig.onRetry # "throws")
       => handlerCalls(c) = mergedConfig.maxRetries + 1
  /\ (Done(c) /\ result[c].kind = "rejected" /\ result[c].err.origin = "handler")
       => result[c].err = rejections(c)[Len(rejections(c))].err

C12_OnlyOwnState ==
  /\ mergedConfig' = mergedConfig
  /\ \E c \in Calls : \A d \in Calls \ {c} :
       /\ pc'[d] = pc[d] /\ context'[d] = context[d] /\ attempt'[d] = attempt[d]
       /\ lastError'[d] = lastError[d] /\ pending'[d] = pending[d]
       /\ timer'[d] = timer[d] /\ result'[d] = result[d] /\ log'[d] = log[d]

C12_CallsIndependent ==
  [](\A c \in Calls : C12_AsIfAlone(c)) /\ [][C12_OnlyOwnState]_vars

\* call 2 is on its second attempt while call 1 still waits after its first
C12_Witness ==
  /\ pc[1] = "waiting" /\ attempt[1] = 1
  /\ pc[2] = "inflight" /\ attempt[2] = 2

\* C13: if every handler invocation settles and every timer fires, every
\* decorated call that was started eventually settles.
C13_EventuallySettles == \A c \in Calls : (pc[c] # "idle") ~> Done(c)

\* a call that went through every retry of the default configuration
C13_Witness ==
  /\ Done(1) /\ mergedConfig.maxRetries = 3 /\ handlerCalls(1) = 4
  /\ Count(log[1], "timeout") = 3 /\ result[1].kind = "rejected"

\* C14: calculateDelay is baseDelay for fixed, min(baseDelay * attempt,
\* maxDelay) for linear and min(baseDelay * 2^(attempt-1), maxDelay) for
\* exponential and any unrecognized strategy; with maxRetries 2, baseDelay 100,
\* exponential and a handler always failing with 500 the delays are [100, 200]
\* over 3 invocations.
C14_Expected(a, cfg) ==
  LET lin == cfg.baseDelay * a
      exp == cfg.baseDelay * 2^(a - 1)
  IN CASE cfg.strategy = "fixed" -> cfg.baseDelay
       [] cfg.strategy = "linear" -> IF lin <= cfg.maxDelay THEN lin ELSE cfg.maxDelay
       [] cfg.strategy \in {"exponential", "other"} ->
            IF exp <= cfg.maxDelay THEN exp ELSE cfg.maxDelay

C14_Delays(c) ==
  LET oi == Only(log[c], "onRetry") IN [i \in 1..Len(oi) |-> oi[i].delay]

C14_DelayCurves ==
  /\ \A a \in 1..6 :
       calculateDelay(a, mergedConfig.baseDelay, mergedConfig.maxDelay,
                      mergedConfig.strategy) = C14_Expected(a, mergedConfig)
  /\ \A c \in Calls : \A i \in 1..Len(log[c]) :
       log[c][i].ev \in {"onRetry", "setTimeout"} =>
         log[c][i].delay = C14_Expected(Count(SubSeq(log[c], 1, i), "onRetry"), mergedConfig)
  /\ \A c \in Calls :
       (/\ userConfig = ScenarioConfig /\ Done(c) /\ NoResolve(c)
        /\ \A i \in 1..Len(rejections(c)) : rejections(c)[i].err.status = 500)
         => (handlerCalls(c) = 3 /\ C14_Delays(c) = <<100, 200>>)

C14_Witness ==
  /\ userConfig = ScenarioConfig /\ Done(1) /\ Len(rejections(1)) = 3
  /\ \A i \in 1..3 : rejections(1)[i].err.status = 500
  /\ C14_Delays(1) = <<100, 200>>

\* C15: if onRetry throws, the retry is aborted: no wait is scheduled, the
\* handler is not invoked again, and the call rejects with the error thrown by
\* onRetry instead of the handler's error.
C15_OnRetryThrowAborts ==
  \A c \in Calls :
    (mergedConfig.onRetry = "throws" /\ onRetryCalls(c) >= 1) =>
      /\ Done(c)
      /\ log[c][Len(log[c])].ev = "onRetry"
      /\ onRetryCalls(c) = 1 /\ waits(c) = 0 /\ timer[c] = -1
      /\ handlerCalls(c) = 1
      /\ result[c] = Rejected(OnRetryError)
      /\ result[c].err # lastError[c]
      /\ lastError[c] = rejections(c)[1].err

C15_Witness ==
  /\ userConfig.onRetry = <<"throws">> /\ mergedConfig.maxRetries >= 1
  /\ Done(1) /\ result[1].err = OnRetryError /\ handlerCalls(1) = 1

\* C16: an error that carries a numeric status code (0 included) which is not
\* in retryStatusCodes is not retried, whatever shouldRetry returns and
\* whatever the method.
C16_UnlistedStatusNotRetried ==
  \A c \in Calls : \A i \in 1..Len(rejections(c)) :
    (/\ rejections(c)[i].err.status # NoStatus
     /\ rejections(c)[i].err.status \notin mergedConfig.retryStatusCodes)
      => waits(c) < i

\* C17: every call of shouldRetry made by the decorator passes attempt 0, on
\* every attempt; the decision for an error depends on the attempt only
\* through the attempt <= maxRetries bound.
C17_ShouldRetryAttemptZero ==
  \A c \in Calls :
    /\ \A i \in 1..Len(log[c]) : log[c][i].ev = "shouldRetry" => log[c][i].attempt = 0
    /\ (/\ userConfig.shouldRetry = <<"zeroOnly">>
        /\ Done(c) /\ NoResolve(c) /\ mergedConfig.maxRetries >= 0
        /\ mergedConfig.onRetry # "throws"
        /\ context[c] = "" \/ RetryableMethod(c)
        /\ \A i \in 1..Len(rejections(c)) :
             LET st == rejections(c)[i].err.status IN
             Truthy(st) => st \in mergedConfig.retryStatusCodes)
         => handlerCalls(c) = mergedConfig.maxRetries + 1

\* a predicate that accepts attempt 0 only is asked on attempts 1, 2 and 3
C17_Witness ==
  /\ userConfig.shouldRetry = <<"zeroOnly">> /\ Done(1)
  /\ handlerCalls(1) = 4 /\ Count(log[1], "shouldRetry") = 3

\* C18: each resolved field is the user's value if the user supplied the
\* field and the default otherwise; no resolved field is undefined and none is
\* a merge of user and default values; the resolved configuration never
\* changes.
C18_Fields ==
  {"maxRetries", "baseDelay", "maxDelay", "strategy", "shouldRetry", "onRetry",
   "retryStatusCodes", "retryMethods"}

C18_Resolved ==
  /\ \A f \in C18_Fields :
       mergedConfig[f] = IF userConfig[f] # <<>> THEN userConfig[f][1] ELSE defaultConfig[f]
  /\ \A f \in {"maxRetries", "baseDelay", "maxDelay"} : mergedConfig[f] # Undefined

C18_ResolvedConfig == []C18_Resolved /\ [][mergedConfig' = mergedConfig]_vars

\* C19: with a non-negative maxRetries the `throw lastError` after the loop is
\* never reached: every call invokes the handler at least once, and what the
\* caller receives is a value the handler resolved, an error the handler
\* threw, or an error thrown by onRetry or shouldRetry, never an undefined
\* rejection.
C19_NoManufacturedRejection ==
  \A c \in Calls :
    (mergedConfig.maxRetries >= 0 /\ pc[c] # "idle") =>
      /\ handlerCalls(c) >= 1
      /\ Done(c) =>
           \/ /\ result[c].kind = "resolved"
              /\ log[c][Len(log[c])].ev = "resolve"
              /\ result[c].val = log[c][Len(log[c])].val
           \/ /\ result[c].kind = "rejected"
              /\ result[c].err # UndefinedError
              /\ \/ \E i \in 1..Len(rejections(c)) : result[c].err = rejections(c)[i].err
                 \/ result[c].err \in {OnRetryError, ShouldRetryError}

\* maxRetries 0: the only attempt fails and its error reaches the caller
C19_Witness ==
  /\ mergedConfig.maxRetries = 0 /\ Done(1) /\ handlerCalls(1) = 1
  /\ result[1].kind = "rejected" /\ result[1].err.origin = "handler"

\* C20: shouldRetry is consulted only while retries remain: not on attempt
\* maxRetries + 1, at most maxRetries times per call and at most once per
\* rejection; with maxRetries 0 a failing call invokes the handler once and
\* neither shouldRetry nor onRetry nor a timer.
C20_AskedOnlyWhileRetriesRemain ==
  \A c \in Calls :
    LET asked == Only(log[c], "shouldRetry") IN
    mergedConfig.maxRetries >= 0 =>
      /\ Len(asked) <= mergedConfig.maxRetries
      /\ Len(asked) <= Len(rejections(c))
      /\ \A i \in 1..Len(asked) :
           asked[i].err = rejections(c)[i].err /\ asked[i].err.id <= mergedConfig.maxRetries
      /\ (mergedConfig.maxRetries = 0 /\ Len(rejections(c)) >= 1) =>
           /\ handlerCalls(c) = 1
           /\ Len(asked) = 0 /\ onRetryCalls(c) = 0 /\ waits(c) = 0 /\ timer[c] = -1

\* the second, last attempt fails without shouldRetry being asked again
C20_Witness ==
  /\ mergedConfig.maxRetries = 1 /\ Done(1) /\ Len(rejections(1)) = 2
  /\ Count(log[1], "shouldRetry") = 1 /\ result[1].kind = "rejected"

====
